---------------------------- MODULE Spec2Model ----------------------------
(***************************************************************************)
(* Model of the proxy library sources:                                     *)
(*   - the categorizer producer loop (Manager.categorize), one goroutine   *)
(*     per smartcontract, all sending through the shared manager.pusher;   *)
(*   - the proxy service (Proxy.SetDefaultSource, SetCustomSource,         *)
(*     Prepare, prepareConfiguration, Run, generateConfiguration).         *)
(*   - the service configuration (Service.Validate, GetController) and the *)
(*     execution context (Context.Host);                                   *)
(*   - the request-reply loop of the vault (Vault.RunController).          *)
(* The programs are separate; each has its own specification and leaves    *)
(* the variables of the others untouched.                                  *)
(* Service.SetController, Config.GetFreePort, the controller constructors, *)
(* Controller.RequireDestination, ValidateServiceType,                     *)
(* ValidateControllerType and message.ParseRequest are not part of these   *)
(* sources: they are modelled from their documented behaviour.             *)
(***************************************************************************)
EXTENDS Integers, Sequences, FiniteSets, TLC

(***************************************************************************)
(* Bounds of the model.                                                    *)
(***************************************************************************)
\* number of categorize goroutines sharing manager.pusher
NumProducers == 2
\* cap on the consecutive failures of RemoteLogFilter in one producer
MaxFails == 2

\* number of requests the clients of the vault send
MaxRequests == 3

\* number of controllers a declared service configuration may list
MaxControllers == 2
\* ports the operating system can hand out: 1..MaxPort
MaxPort == 2
\* the non-zero port that declared controller instances use
DeclaredPort == 1

Producers == 1..NumProducers

VARIABLES
    pc,         \* pc[p]: position of producer p inside categorize's for loop
    mu,         \* mu[p]: the sync.Mutex declared by p's categorize call
    sendErr,    \* sendErr[p]: err returned by p's last SendMessage
    attempts,   \* attempts[p]: RemoteLogFilter calls of p since its last send
    fails,      \* fails[p]: those of them that returned an error
    sleeps,     \* sleeps[p]: time.Sleep(10 * time.Second) completed since then
    sends,      \* sends[p]: SendMessage calls started since then
    panicked,   \* TRUE once a goroutine panicked: the whole process is gone
    configuration,  \* service.configuration.Service of the proxy
    source,     \* service.source: Nil or the source controller
    Controller, \* service.Controller: the proxy (destination side) controller
    freePorts,  \* ports that GetFreePort has handed out so far
    call,       \* the last call of the proxy's API and its outcome
    proc,       \* the proxy process: "alive", "fatal" (log.Fatal) or "panic"
    runPc,      \* position of the caller of Run
    wg,         \* the sync.WaitGroup counter of Run
    srcPc,      \* position of the goroutine running service.source.Run()
    srcErr,     \* err returned by service.source.Run()
    ctlPc,      \* position of the goroutine running service.Controller.Run()
    written,    \* number of WriteService calls that wrote the file
    s,          \* the configuration.Service that Validate is called on
    ret,        \* the last call on s and what it returned
    context,    \* the configuration.Context
    host,       \* the last call of context.Host(): its result and receiver
    vaultPc,    \* position of the goroutine running Vault.RunController
    request,    \* the request that the vault parsed from the last message
    recvErr,    \* TRUE when the last socket.RecvMessage returned an error
    sendFailed, \* TRUE when the last socket.SendMessage returned an error
    received,   \* number of requests that RecvMessage has delivered
    replied,    \* number of replies that SendMessage has sent
    reply       \* the last reply sent, Nil before the first one

catVars == <<pc, mu, sendErr, attempts, fails, sleeps, sends, panicked>>

proxyVars == <<configuration, source, Controller, freePorts, call, proc,
               runPc, wg, srcPc, srcErr, ctlPc, written>>

cfgVars == <<s, ret, context, host>>

vaultVars == <<vaultPc, request, recvErr, sendFailed, received, replied,
               reply>>

vars == <<catVars, proxyVars, cfgVars, vaultVars>>


(***************************************************************************)
(* The proxy service: configuration data.                                  *)
(***************************************************************************)

\* a nil interface or pointer
Nil == [nil |-> TRUE]

\* SourceName, DestinationName of the proxy package
SourceName == "source"
DestinationName == "destination"

\* configuration.ProxyType and another service type
ProxyType == "Proxy"
ExtensionType == "Extension"

\* configuration.ReplierType, PusherType, PublisherType, UnknownType
ReplierType == "Replier"
PusherType == "Pusher"
PublisherType == "Publisher"
UnknownType == ""

\* the zero value of configuration.Controller ("var sourceConfig ...")
ZeroController == [Type |-> "", Name |-> "", Instances |-> <<>>]

\* mutant: the synthesized instance does not get the allocated port
NewInstance_ZeroPort(name, port) ==
    [Name |-> name, Instance |-> <<name, "1">>, Port |-> 0]

\* configuration.ControllerInstance{Name, Instance: name + "1", Port}
NewInstance(name, port) ==
    [Name |-> name, Instance |-> <<name, "1">>, Port |-> port]

\* an instance as a configuration file declares it
DeclaredInstance(name, port) ==
    [Name |-> name, Instance |-> <<name, "declared">>, Port |-> port]

\* the zero value of configuration.Service: no configuration was given
EmptyService ==
    [Type |-> "", Url |-> "", Instance |-> "", Controllers |-> <<>>]

\* the controllers a configuration may declare.  A "source" or a
\* "destination" has a recognized type, and no instance, an instance of
\* port 0 or an instance of a non-zero port; any other controller is a
\* replier with one instance
DeclaredControllers ==
    { [Type |-> t, Name |-> n, Instances |-> i] :
        t \in {ReplierType, PusherType},
        n \in {SourceName, DestinationName},
        i \in {<<>>} } \cup
    { [Type |-> t, Name |-> n, Instances |-> <<DeclaredInstance(n, q)>>] :
        t \in {ReplierType, PusherType},
        n \in {SourceName, DestinationName},
        q \in {0, DeclaredPort} } \cup
    { [Type |-> ReplierType, Name |-> "other",
       Instances |-> <<DeclaredInstance("other", DeclaredPort)>>] }

\* lists of at most MaxControllers declared controllers with unique names
DeclaredLists ==
    UNION { { l \in [1..n -> DeclaredControllers] :
                \A i, j \in 1..n : l[i].Name = l[j].Name => i = j } :
            n \in 0..MaxControllers }

\* the service configurations the proxy may be constructed with
DeclaredServices ==
    { [Type |-> t, Url |-> "declared", Instance |-> "declared",
       Controllers |-> l] :
        t \in {"", ProxyType, ExtensionType}, l \in DeclaredLists }

\* proxy.New(config, parent): no source, a new proxy controller that has
\* no required destination yet
New(config) ==
    /\ configuration = config
    /\ source = Nil
    /\ Controller = [requiredDestination |-> UnknownType, destination |-> Nil]
    /\ freePorts = {}
    /\ call = [op |-> "New", arg |-> "", result |-> "", pre |-> Nil,
               ports |-> <<>>, again |-> FALSE, mode |-> "", value |-> Nil]
    /\ proc = "alive"
    /\ runPc = "idle"
    /\ wg = 0
    /\ srcPc = "none"
    /\ srcErr = FALSE
    /\ ctlPc = "none"
    /\ written = 0


(***************************************************************************)
(* The proxy service: Prepare and the calls before it.                     *)
(***************************************************************************)

\* the record of an API call: its name, the controller type it was given,
\* what it returned, the service configuration before it, the ports it
\* allocated, whether the call before it was a Prepare that returned nil,
\* the mode of Run, and the value returned besides the error
Called(op, arg, result, pre, ports, mode) ==
    call' = [op |-> op, arg |-> arg, result |-> result, pre |-> pre,
             ports |-> ports,
             again |-> (call.op = "Prepare" /\ call.result = "ok"),
             mode |-> mode, value |-> Nil]

\* a controller as its constructor returns it: typed, without configuration
\* and without extensions
NewController(controllerType) ==
    [ControllerType |-> controllerType, config |-> Nil,
     requiredExtensions |-> {}, extensionConfigs |-> {}]

\* configuration.NewInternalExtension(ControllerName)
extension == [Url |-> "proxy_controller", Port |-> 0]

\* the API of the proxy is called by one goroutine, before Run
Callable == proc = "alive" /\ runPc = "idle"

\* SetCustomSource: service.source = source; return nil
SetCustomSource(c) ==
    /\ Callable
    /\ source' = c
    /\ Called("SetCustomSource", "", "ok", Nil, <<>>, "")
    /\ UNCHANGED <<configuration, Controller, freePorts, proc, runPc, wg,
                   srcPc, srcErr, ctlPc, written,
                   catVars, cfgVars, vaultVars>>

\* mutant: every controller type is taken for a supported one
SupportedSource_Any(controllerType) == TRUE

\* the controller types SetDefaultSource has a constructor for
SupportedSource(controllerType) ==
    controllerType \in {ReplierType, PusherType}

\* SetDefaultSource: NewReplier or NewPull by the type, an error for any
\* other type or when the constructor fails, else SetCustomSource
SetDefaultSource(controllerType) ==
    /\ Callable
    /\ \E newErr \in BOOLEAN :
         IF ~SupportedSource(controllerType)
         THEN /\ Called("SetDefaultSource", controllerType,
                         "type not supported", Nil, <<>>, "")
              /\ source' = source
         ELSE IF newErr
         THEN /\ Called("SetDefaultSource", controllerType,
                         "failed to create a source", Nil, <<>>, "")
              /\ source' = source
         ELSE /\ Called("SetDefaultSource", controllerType,
                         "ok", Nil, <<>>, "")
              /\ source' = NewController(controllerType)
    /\ UNCHANGED <<configuration, Controller, freePorts, proc, runPc, wg,
                   srcPc, srcErr, ctlPc, written,
                   catVars, cfgVars, vaultVars>>

\* service.Controller.RequireDestination(controllerType)
RequireDestination(controllerType) ==
    /\ Callable
    /\ Controller' = [Controller EXCEPT !.requiredDestination = controllerType]
    /\ Called("RequireDestination", controllerType, "ok", Nil, <<>>, "")
    /\ UNCHANGED <<configuration, source, freePorts, proc, runPc, wg,
                   srcPc, srcErr, ctlPc, written,
                   catVars, cfgVars, vaultVars>>

\* the loop over serviceConfig.Controllers in prepareConfiguration: it has
\* no break, so the last controller of the name stays; the zero value when
\* there is none
FindController(controllers, name) ==
    LET idx == {i \in 1..Len(controllers) : controllers[i].Name = name}
    IN  IF idx = {} THEN ZeroController
        ELSE controllers[CHOOSE i \in idx : \A j \in idx : j <= i]

\* the first controller of the name (the loops of registerSource and
\* registerDestination break at the first match), Nil when there is none
FirstController(controllers, name) ==
    LET idx == {i \in 1..Len(controllers) : controllers[i].Name = name}
    IN  IF idx = {} THEN Nil
        ELSE controllers[CHOOSE i \in idx : \A j \in idx : i <= j]

\* Service.SetController: the controller of that name is replaced by the
\* given one; a controller of a new name is appended
SetController(controllers, c) ==
    LET idx == {i \in 1..Len(controllers) : controllers[i].Name = c.Name}
    IN  IF idx = {} THEN Append(controllers, c)
        ELSE [controllers EXCEPT ![CHOOSE i \in idx : \A j \in idx : i <= j] = c]

\* mutant: an instance is synthesized even when one is declared
NeedsInstance_Always(c) == TRUE

\* len(config.Instances) == 0: an instance has to be synthesized
NeedsInstance(c) == Len(c.Instances) = 0

\* mutant: a declared instance of port 0 is accepted
PortIsZero_Never(c) == FALSE

\* config.Instances[0].Port == 0 of a controller that declares an instance
PortIsZero(c) == c.Instances[1].Port = 0

\* mutant: an error return leaves the copy completed so far in the proxy
Failed_Partial(cfg, partial, result, ports) ==
    [result |-> result, Service |-> partial, ports |-> ports]

\* an error return of prepareConfiguration (and the exit of logger.Fatal):
\* serviceConfig, the copy completed so far, is dropped and the service
\* configuration of the proxy stays cfg
Failed(cfg, partial, result, ports) ==
    [result |-> result, Service |-> cfg, ports |-> ports]

\* the outcome of prepareConfiguration on the service configuration cfg
\* for a source of type sourceType and the required destination type:
\* exeErr is the outcome of GetCurrentPath, port1 and port2 are what the
\* first and the second GetFreePort call return.  result is "ok", an error
\* or "fatal"; Service is the service configuration of the proxy after the
\* call; ports are the ports GetFreePort was asked for.
prepareConfiguration(cfg, sourceType, required, exeErr, port1, port2) ==
    LET serviceConfig ==
            IF cfg.Type = ""
            THEN [Type |-> ProxyType, Url |-> "exePath",
                  Instance |-> <<"name", " 1">>, Controllers |-> <<>>]
            ELSE cfg
        declaredSource == FindController(serviceConfig.Controllers, SourceName)
        declaredDestination ==
            FindController(serviceConfig.Controllers, DestinationName)
        newSource == declaredSource.Type = ""
        sourceConfig ==
            IF newSource
            THEN [Type |-> sourceType, Name |-> SourceName, Instances |-> <<>>]
            ELSE declaredSource
        withSource ==
            IF newSource
            THEN Append(serviceConfig.Controllers, sourceConfig)
            ELSE serviceConfig.Controllers
        newDestination == declaredDestination.Type = ""
        destinationConfig ==
            IF newDestination
            THEN [Type |-> required, Name |-> DestinationName,
                  Instances |-> <<>>]
            ELSE declaredDestination
        withDestination ==
            IF newDestination
            THEN Append(withSource, destinationConfig)
            ELSE withSource
        sourcePorts == IF NeedsInstance(sourceConfig) THEN <<port1>> ELSE <<>>
        sourceDone ==
            IF NeedsInstance(sourceConfig)
            THEN [sourceConfig EXCEPT !.Instances =
                     Append(@, NewInstance(sourceConfig.Name, port1))]
            ELSE sourceConfig
        port == IF NeedsInstance(sourceConfig) THEN port2 ELSE port1
        destinationDone ==
            IF NeedsInstance(destinationConfig)
            THEN [destinationConfig EXCEPT !.Instances =
                     Append(@, NewInstance(destinationConfig.Name, port))]
            ELSE destinationConfig
        allPorts ==
            IF NeedsInstance(destinationConfig)
            THEN Append(sourcePorts, port) ELSE sourcePorts
        copy(controllers) == [serviceConfig EXCEPT !.Controllers = controllers]
    IN  IF cfg.Type = "" /\ exeErr
        THEN Failed(cfg, cfg, "fatal", <<>>)
        ELSE IF cfg.Type # "" /\ cfg.Type # ProxyType
        THEN Failed(cfg, serviceConfig, "service type is overwritten", <<>>)
        ELSE IF ~newSource /\ sourceConfig.Type # sourceType
        THEN Failed(cfg, serviceConfig, "source type", <<>>)
        ELSE IF ~newDestination /\ destinationConfig.Type # required
        THEN Failed(cfg, copy(withSource), "destination type", <<>>)
        ELSE IF ~NeedsInstance(sourceConfig) /\ PortIsZero(sourceConfig)
        THEN Failed(cfg, copy(withDestination), "source port 0", <<>>)
        ELSE IF ~NeedsInstance(destinationConfig)
                /\ PortIsZero(destinationConfig)
        THEN Failed(cfg, copy(withDestination), "destination port 0",
                    sourcePorts)
        ELSE [result |-> "ok",
              Service |-> [serviceConfig EXCEPT !.Controllers =
                  SetController(SetController(withDestination, sourceDone),
                                destinationDone)],
              ports |-> allPorts]

\* service.source == nil
MissingSource == source = Nil

\* mutant: the required destination is not checked
MissingDestination_Never == FALSE

\* service.Controller.requiredDestination == configuration.UnknownType
MissingDestination == Controller.requiredDestination = UnknownType

\* configuration.GetFreePort: the ports that the first and the second
\* call of one Prepare may return: non-zero ports of the system, a fresh
\* one at each call; 0 stands for a call that is not made
GetFreePort ==
    LET free == 1..MaxPort
    IN  {<<0, 0>>} \cup {<<a, 0>> : a \in free}
            \cup {q \in free \X free : q[1] # q[2]}

\* the elements of a sequence
Range(seq) == {seq[i] : i \in 1..Len(seq)}

\* mutant: Prepare does not require its extension on the source
Register_NoExtension(serviceConfig) ==
    LET d == FirstController(serviceConfig.Controllers, DestinationName)
        c == FirstController(serviceConfig.Controllers, SourceName)
    IN  /\ Controller' =
              IF d = Nil THEN Controller
              ELSE [Controller EXCEPT !.destination = d]
        /\ source' =
              [source EXCEPT
                  !.config = IF c = Nil THEN @ ELSE c,
                  !.extensionConfigs = @ \cup {extension}]

\* registerDestination, registerSource and the extension of the source:
\* what Prepare does after prepareConfiguration returned nil
Register(serviceConfig) ==
    LET d == FirstController(serviceConfig.Controllers, DestinationName)
        c == FirstController(serviceConfig.Controllers, SourceName)
    IN  /\ Controller' =
              IF d = Nil THEN Controller
              ELSE [Controller EXCEPT !.destination = d]
        /\ source' =
              [source EXCEPT
                  !.config = IF c = Nil THEN @ ELSE c,
                  !.requiredExtensions = @ \cup {extension.Url},
                  !.extensionConfigs = @ \cup {extension}]

\* Proxy.Prepare
Prepare ==
    /\ Callable
    /\ IF MissingSource
       THEN /\ Called("Prepare", "", "missing source", configuration, <<>>, "")
            /\ UNCHANGED <<configuration, source, Controller, freePorts, proc>>
       ELSE IF MissingDestination
       THEN /\ Called("Prepare", "", "missing the required destination",
                      configuration, <<>>, "")
            /\ UNCHANGED <<configuration, source, Controller, freePorts, proc>>
       ELSE \E exeErr \in BOOLEAN, ports \in GetFreePort :
              LET r == prepareConfiguration(configuration,
                          source.ControllerType,
                          Controller.requiredDestination,
                          exeErr, ports[1], ports[2])
              IN  /\ exeErr => configuration.Type = ""
                  /\ r.ports = SelectSeq(ports, LAMBDA q : q # 0)
                  /\ Called("Prepare", "", r.result, configuration, r.ports,
                            "")
                  /\ freePorts' = freePorts \cup Range(r.ports)
                  /\ proc' = IF r.result = "fatal" THEN "fatal" ELSE proc
                  /\ configuration' = r.Service
                  /\ IF r.result = "ok"
                     THEN Register(r.Service)
                     ELSE UNCHANGED <<source, Controller>>
    /\ UNCHANGED <<runPc, wg, srcPc, srcErr, ctlPc, written,
                   catVars, cfgVars, vaultVars>>


(***************************************************************************)
(* The proxy service: Run.                                                 *)
(***************************************************************************)

\* mutant: Run goes on to serve after the configuration was generated
generateConfiguration_Serve(outcome) ==
    /\ Called("Run", "", "", configuration, <<>>, "generate")
    /\ configuration' =
          IF outcome \in {"no path", "no url"} THEN configuration
          ELSE [configuration EXCEPT !.Url = "url"]
    /\ proc' = IF outcome = "written" THEN proc ELSE "fatal"
    /\ written' = IF outcome = "written" THEN written + 1 ELSE written
    /\ runPc' = IF outcome = "written" THEN "spawn" ELSE runPc
    /\ wg' = IF outcome = "written" THEN wg + 1 ELSE wg
    /\ srcPc' = IF outcome = "written" THEN "spawned" ELSE srcPc

\* generateConfiguration: the path and url arguments, the Url of the
\* service configuration, WriteService; every failure is logger.Fatal
generateConfiguration(outcome) ==
    /\ Called("Run", "", "", configuration, <<>>, "generate")
    /\ configuration' =
          IF outcome \in {"no path", "no url"} THEN configuration
          ELSE [configuration EXCEPT !.Url = "url"]
    /\ proc' = IF outcome = "written" THEN proc ELSE "fatal"
    /\ written' = IF outcome = "written" THEN written + 1 ELSE written
    /\ runPc' = IF outcome = "written" THEN "returned" ELSE runPc
    /\ UNCHANGED <<wg, srcPc>>

\* Proxy.Run up to the first go statement: the configuration is generated
\* when the build-configuration argument exists; otherwise wg.Add(1) and
\* the goroutine of the source is started
Run ==
    /\ Callable
    /\ \E build \in BOOLEAN :
         IF build
         THEN \E outcome \in {"no path", "no url", "write failed", "written"} :
                 generateConfiguration(outcome)
         ELSE /\ Called("Run", "", "", configuration, <<>>, "serve")
              /\ wg' = wg + 1
              /\ srcPc' = "spawned"
              /\ runPc' = "spawn"
              /\ UNCHANGED <<configuration, proc, written>>
    /\ UNCHANGED <<source, Controller, freePorts, srcErr, ctlPc,
                   catVars, cfgVars, vaultVars>>

\* wg.Add(1) and the go statement of the proxy controller
RunController ==
    /\ proc = "alive"
    /\ runPc = "spawn"
    /\ wg' = wg + 1
    /\ ctlPc' = "spawned"
    /\ runPc' = "wait"
    /\ UNCHANGED <<configuration, source, Controller, freePorts, call, proc,
                   srcPc, srcErr, written,
                   catVars, cfgVars, vaultVars>>

\* mutant: Run returns without waiting for the counter to reach zero
RunWait_NoWait ==
    /\ proc = "alive"
    /\ runPc = "wait"
    /\ runPc' = "returned"
    /\ UNCHANGED <<configuration, source, Controller, freePorts, call, proc,
                   wg, srcPc, srcErr, ctlPc, written,
                   catVars, cfgVars, vaultVars>>

\* wg.Wait() returns when the counter is zero, and Run returns
RunWait ==
    /\ proc = "alive"
    /\ runPc = "wait"
    /\ wg = 0
    /\ runPc' = "returned"
    /\ UNCHANGED <<configuration, source, Controller, freePorts, call, proc,
                   wg, srcPc, srcErr, ctlPc, written,
                   catVars, cfgVars, vaultVars>>

\* the first goroutine calls service.source.Run(): a method call on the
\* nil interface is a nil pointer dereference, a run-time panic
SourceRun ==
    /\ proc = "alive"
    /\ srcPc = "spawned"
    /\ IF source = Nil
       THEN proc' = "panic" /\ srcPc' = srcPc
       ELSE proc' = proc /\ srcPc' = "serving"
    /\ UNCHANGED <<configuration, source, Controller, freePorts, call,
                   runPc, wg, srcErr, ctlPc, written,
                   catVars, cfgVars, vaultVars>>

\* service.source.Run() returns, with or without an error, and the
\* goroutine calls wg.Done()
SourceDone ==
    /\ proc = "alive"
    /\ srcPc = "serving"
    /\ \E err \in BOOLEAN : srcErr' = err
    /\ wg' = wg - 1
    /\ srcPc' = "done"
    /\ UNCHANGED <<configuration, source, Controller, freePorts, call, proc,
                   runPc, ctlPc, written,
                   catVars, cfgVars, vaultVars>>

\* if err != nil { log.Fatal(...) }
SourceFatal ==
    /\ proc = "alive"
    /\ srcPc = "done"
    /\ IF srcErr
       THEN proc' = "fatal" /\ srcPc' = srcPc
       ELSE proc' = proc /\ srcPc' = "exit"
    /\ UNCHANGED <<configuration, source, Controller, freePorts, call,
                   runPc, wg, srcErr, ctlPc, written,
                   catVars, cfgVars, vaultVars>>

\* the second goroutine calls service.Controller.Run()
ControllerRun ==
    /\ proc = "alive"
    /\ ctlPc = "spawned"
    /\ ctlPc' = "serving"
    /\ UNCHANGED <<configuration, source, Controller, freePorts, call, proc,
                   runPc, wg, srcPc, srcErr, written,
                   catVars, cfgVars, vaultVars>>

\* service.Controller.Run() returns and the goroutine calls wg.Done()
ControllerDone ==
    /\ proc = "alive"
    /\ ctlPc = "serving"
    /\ wg' = wg - 1
    /\ ctlPc' = "exit"
    /\ UNCHANGED <<configuration, source, Controller, freePorts, call, proc,
                   runPc, srcPc, srcErr, written,
                   catVars, cfgVars, vaultVars>>

(***************************************************************************)
(* The service configuration: Service.Validate.                            *)
(***************************************************************************)

\* the recognized service types and controller types
ServiceTypes == {ProxyType, ExtensionType, "Independent"}
ControllerTypes == {ReplierType, PusherType, PublisherType}

\* an error value is the sequence of the parts of its message; nil is the
\* empty one
NoError == <<>>

\* ValidateServiceType(t): an error, made of t alone, for a type outside
\* the recognized set
ValidateServiceType(t) ==
    IF t \in ServiceTypes THEN NoError
    ELSE <<"unsupported service type", t>>

\* ValidateControllerType(t): likewise for a controller type
ValidateControllerType(t) ==
    IF t \in ControllerTypes THEN NoError
    ELSE <<"unsupported controller type", t>>

\* fmt.Errorf(prefix + ": %v", err)
Errorf(prefix, err) == <<prefix>> \o err

\* the loop of Validate over s.Controllers, from the i-th controller on:
\* it returns at the first controller whose type is not valid
RECURSIVE ValidateControllers(_, _)
ValidateControllers(controllers, i) ==
    IF i > Len(controllers) THEN NoError
    ELSE IF ValidateControllerType(controllers[i].Type) # NoError
    THEN Errorf("controller.ValidateControllerType",
                ValidateControllerType(controllers[i].Type))
    ELSE ValidateControllers(controllers, i + 1)

\* mutant: the controllers are not validated
Validate_ServiceOnly(service) ==
    IF ValidateServiceType(service.Type) # NoError
    THEN Errorf("identity.ValidateServiceType",
                ValidateServiceType(service.Type))
    ELSE NoError

\* Service.Validate: the error it returns
Validate(service) ==
    IF ValidateServiceType(service.Type) # NoError
    THEN Errorf("identity.ValidateServiceType",
                ValidateServiceType(service.Type))
    ELSE ValidateControllers(service.Controllers, 1)

\* the controllers a Service may list: any name with any type, recognized
\* or not
ListedControllers ==
    { [Type |-> t, Name |-> n, Instances |-> <<>>] :
        t \in {ReplierType, PusherType, UnknownType, "bogus"},
        n \in {SourceName, DestinationName} }

\* the Services that Validate may be called on: any type, recognized or
\* not, and at most MaxControllers controllers
Services ==
    { [Type |-> t, Name |-> "name", Controllers |-> l] :
        t \in {ProxyType, ExtensionType, "", "bogus"},
        l \in UNION { [1..n -> ListedControllers] : n \in 0..MaxControllers } }

\* the name that identifies a service in messages: its Name, or its Url
\* where the Service has no Name field
ServiceName(service) ==
    IF "Name" \in DOMAIN service THEN service.Name ELSE service.Url

\* the error of GetController
NotFound(service, name) ==
    <<"'", name, "' controller was not found in '", ServiceName(service),
      "' service's configuration">>

\* the loop of GetController from the i-th controller on, without the
\* return at a match: the last controller of the name stays
RECURSIVE LastController(_, _, _, _)
LastController(service, name, i, found) ==
    IF i > Len(service.Controllers)
    THEN IF found = Nil
         THEN [controller |-> Nil, err |-> NotFound(service, name)]
         ELSE [controller |-> found, err |-> NoError]
    ELSE LastController(service, name, i + 1,
            IF service.Controllers[i].Name = name
            THEN service.Controllers[i] ELSE found)

\* mutant: the loop does not return at the first match
GetController_Last(service, name) == LastController(service, name, 1, Nil)

\* the loop of GetController from the i-th controller on: it returns a
\* copy of the first controller of the name, and the error after the loop
RECURSIVE GetControllerFrom(_, _, _)
GetControllerFrom(service, name, i) ==
    IF i > Len(service.Controllers)
    THEN [controller |-> Nil, err |-> NotFound(service, name)]
    ELSE IF service.Controllers[i].Name = name
    THEN [controller |-> service.Controllers[i], err |-> NoError]
    ELSE GetControllerFrom(service, name, i + 1)

\* Service.GetController(name): the controller and the error it returns
GetController(service, name) == GetControllerFrom(service, name, 1)

\* the result of a call: the method or function, its argument, the value
\* and the error it returned
Returned(op, arg, value, err) ==
    [op |-> op, arg |-> arg, value |-> value, err |-> err]

\* a Service as loaded from the configuration, before any call on it
Loaded(service) ==
    /\ s = service
    /\ ret = Returned("", "", Nil, NoError)

\* a call of s.Validate(): the method reads s and assigns nothing to it
CallValidate ==
    /\ ret' = Returned("Validate", "", Nil, Validate(s))
    /\ s' = s
    /\ UNCHANGED <<context, host, catVars, proxyVars, vaultVars>>

\* a call of s.GetController(name)
CallGetController(name) ==
    /\ ret' = Returned("GetController", name,
                       GetController(s, name).controller,
                       GetController(s, name).err)
    /\ s' = s
    /\ UNCHANGED <<context, host, catVars, proxyVars, vaultVars>>

\* DevContext, DefaultContext
DevContext == "development"
DefaultContext == "default"

\* the Contexts: of a type, or without one as newContext returns it, with
\* the paths of the dependencies
Contexts ==
    { [Type |-> t, Src |-> p, Bin |-> "deps/.bin", Data |-> "deps/.data"] :
        t \in {DevContext, DefaultContext, ""},
        p \in {"deps/.src", "/usr/src"} }

\* a Context as the configuration holds it, before any call of Host
Created(ctx) ==
    /\ context = ctx
    /\ host = [value |-> "", of |-> Nil]

\* mutant: the comparison with DevContext is inverted
Host_Inverted(ctx) ==
    IF ctx.Type # DevContext THEN "localhost" ELSE "0.0.0.0"

\* Context.Host
Host(ctx) ==
    IF ctx.Type = DevContext THEN "localhost" ELSE "0.0.0.0"

\* a call of context.Host(): the method reads the context
CallHost ==
    /\ host' = [value |-> Host(context), of |-> context]
    /\ context' = context
    /\ UNCHANGED <<s, ret, catVars, proxyVars, vaultVars>>

\* setDevContext: a new context of the development type
setDevContext ==
    /\ context.Type # DevContext
    /\ context' = [context EXCEPT !.Type = DevContext]
    /\ UNCHANGED <<s, ret, host, catVars, proxyVars, vaultVars>>

\* the calls on the service configuration and on the context
ConfigurationNext ==
    \/ CallValidate
    \/ \E name \in {SourceName, DestinationName, "missing"} :
          CallGetController(name)
    \/ CallHost
    \/ setDevContext

(***************************************************************************)
(* The vault: Vault.RunController.                                         *)
(***************************************************************************)

\* the zero value of message.Request
ZeroRequest == [Command |-> "", bucket |-> "", key |-> ""]

\* the requests a client may send: the GetString command or another one,
\* with or without the key parameter
Requests ==
    { [Command |-> c, bucket |-> "bucket", key |-> k] :
        c \in {"GetString", "SetString"}, k \in {"key", ""} }

\* what RecvMessage may deliver: a serialized request or a message that is
\* not one; a failed RecvMessage delivers no part at all
Messages == { <<r>> : r \in Requests } \cup { <<[malformed |-> TRUE]>> }

\* message.ParseRequest(msgs) with its error dropped: the request that
\* the message carries, the zero Request when the message is empty or is
\* not a request
ParseRequest(msgs) ==
    IF msgs # <<>> /\ msgs[1] \in Requests THEN msgs[1] ELSE ZeroRequest

\* the state at the call of Vault.RunController
VaultRunController ==
    /\ vaultPc = "socket"
    /\ request = ZeroRequest
    /\ recvErr = FALSE
    /\ sendFailed = FALSE
    /\ received = 0
    /\ replied = 0
    /\ reply = Nil

\* socket, err := zmq.NewSocket(zmq.REP); panic(err) on an error
NewSocket ==
    /\ vaultPc = "socket"
    /\ \E err \in BOOLEAN : vaultPc' = IF err THEN "panicked" ELSE "bind"
    /\ UNCHANGED <<request, recvErr, sendFailed, received, replied, reply,
                   catVars, proxyVars, cfgVars>>

\* socket.Bind("inproc://sds_vault"); panic on an error
Bind ==
    /\ vaultPc = "bind"
    /\ \E err \in BOOLEAN : vaultPc' = IF err THEN "panicked" ELSE "recv"
    /\ UNCHANGED <<request, recvErr, sendFailed, received, replied, reply,
                   catVars, proxyVars, cfgVars>>

\* msgs, _ := socket.RecvMessage(0); request, _ := message.ParseRequest(msgs)
\* and the bucket and key parameters: every error is dropped
RecvMessage ==
    /\ vaultPc = "recv"
    /\ received < MaxRequests
    /\ \E err \in BOOLEAN, msgs \in Messages :
          /\ recvErr' = err
          /\ request' = ParseRequest(IF err THEN <<>> ELSE msgs)
          /\ received' = IF err THEN received ELSE received + 1
    /\ vaultPc' = "command"
    /\ UNCHANGED <<sendFailed, replied, reply,
                   catVars, proxyVars, cfgVars>>

\* mutant: a command that is not supported is skipped
GetString_Skip ==
    /\ vaultPc = "command"
    /\ IF request.Command = "GetString"
       THEN \E err \in BOOLEAN :
               vaultPc' = IF err THEN "fail" ELSE "ok"
       ELSE vaultPc' = "recv"
    /\ UNCHANGED <<request, recvErr, sendFailed, received, replied, reply,
                   catVars, proxyVars, cfgVars>>

\* if request.Command == "GetString": v.get_string(bucket, key) returns a
\* value or an error; any other command is a panic
GetString ==
    /\ vaultPc = "command"
    /\ IF request.Command = "GetString"
       THEN \E err \in BOOLEAN :
               vaultPc' = IF err THEN "fail" ELSE "ok"
       ELSE vaultPc' = "panicked"
    /\ UNCHANGED <<request, recvErr, sendFailed, received, replied, reply,
                   catVars, proxyVars, cfgVars>>

\* mutant: after the fail reply the OK reply is sent as well
SendFail_AndOK ==
    /\ vaultPc = "fail"
    /\ \E err \in BOOLEAN :
          /\ sendFailed' = err
          /\ vaultPc' = IF err THEN "panicked" ELSE "ok"
          /\ replied' = IF err THEN replied ELSE replied + 1
          /\ reply' = IF err THEN reply
                      ELSE [Status |-> "fail", key |-> request.key]
    /\ UNCHANGED <<request, recvErr, received,
                   catVars, proxyVars, cfgVars>>

\* socket.SendMessage of message.Fail(...); panic on an error
SendFail ==
    /\ vaultPc = "fail"
    /\ \E err \in BOOLEAN :
          /\ sendFailed' = err
          /\ vaultPc' = IF err THEN "panicked" ELSE "recv"
          /\ replied' = IF err THEN replied ELSE replied + 1
          /\ reply' = IF err THEN reply
                      ELSE [Status |-> "fail", key |-> request.key]
    /\ UNCHANGED <<request, recvErr, received,
                   catVars, proxyVars, cfgVars>>

\* socket.SendMessage of message.Reply{Status: "OK", ...}; panic on an error
SendOK ==
    /\ vaultPc = "ok"
    /\ \E err \in BOOLEAN :
          /\ sendFailed' = err
          /\ vaultPc' = IF err THEN "panicked" ELSE "recv"
          /\ replied' = IF err THEN replied ELSE replied + 1
          /\ reply' = IF err THEN reply
                      ELSE [Status |-> "OK", key |-> request.key]
    /\ UNCHANGED <<request, recvErr, received,
                   catVars, proxyVars, cfgVars>>

\* the steps of the goroutine of the vault
VaultNext ==
    \/ NewSocket
    \/ Bind
    \/ RecvMessage
    \/ GetString
    \/ SendFail
    \/ SendOK

(***************************************************************************)
(* The proxy service: ServiceToProxy.                                      *)
(***************************************************************************)

\* mutant: a service of any type is converted
ServiceToProxy_AnyType(service) ==
    LET found == GetController(service, SourceName)
    IN  IF found.err # NoError
        THEN [proxy |-> Nil, err |-> Errorf("no source controller", found.err)]
        ELSE IF Len(found.controller.Instances) = 0
        THEN [proxy |-> Nil, err |-> <<"no source instances">>]
        ELSE [proxy |-> [Url |-> service.Url,
                         Instance |-> <<found.controller.Name, " instance 01">>,
                         Port |-> found.controller.Instances[1].Port],
              err |-> NoError]

\* ServiceToProxy(s): the configuration.Proxy and the error it returns
ServiceToProxy(service) ==
    LET found == GetController(service, SourceName)
    IN  IF service.Type # ProxyType
        THEN [proxy |-> Nil,
              err |-> <<"only proxy type of service can be converted">>]
        ELSE IF found.err # NoError
        THEN [proxy |-> Nil, err |-> Errorf("no source controller", found.err)]
        ELSE IF Len(found.controller.Instances) = 0
        THEN [proxy |-> Nil, err |-> <<"no source instances">>]
        ELSE [proxy |-> [Url |-> service.Url,
                         Instance |-> <<found.controller.Name, " instance 01">>,
                         Port |-> found.controller.Instances[1].Port],
              err |-> NoError]

\* a call of ServiceToProxy on the service configuration of the proxy:
\* the result is "ok" or the first part of the error
CallServiceToProxy ==
    /\ Callable
    /\ LET r == ServiceToProxy(configuration)
       IN  call' = [op |-> "ServiceToProxy", arg |-> "",
                    result |-> IF r.err = NoError THEN "ok" ELSE r.err[1],
                    pre |-> configuration, ports |-> <<>>,
                    again |-> (call.op = "Prepare" /\ call.result = "ok"),
                    mode |-> "", value |-> r.proxy]
    /\ UNCHANGED <<configuration, source, Controller, freePorts, proc, runPc,
                   wg, srcPc, srcErr, ctlPc, written,
                   catVars, cfgVars, vaultVars>>

\* the calls a user of the proxy makes, and the steps of Run's goroutines
ProxyNext ==
    \/ \E t \in {ReplierType, PusherType, PublisherType} :
          SetDefaultSource(t)
    \/ SetCustomSource(NewController(PublisherType))
    \/ \E t \in {ReplierType, PusherType} : RequireDestination(t)
    \/ Prepare
    \/ CallServiceToProxy
    \/ Run
    \/ RunController
    \/ RunWait
    \/ SourceRun
    \/ SourceDone
    \/ SourceFatal
    \/ ControllerRun
    \/ ControllerDone

(***************************************************************************)
(* Manager.categorize                                                      *)
(***************************************************************************)

\* the state at the call of categorize: "var mu sync.Mutex" is a fresh,
\* unlocked mutex of this call, and the loop starts at RemoteLogFilter
categorize ==
    /\ pc = [p \in Producers |-> "fetch"]
    /\ mu = [p \in Producers |-> FALSE]
    /\ sendErr = [p \in Producers |-> FALSE]
    /\ attempts = [p \in Producers |-> 0]
    /\ fails = [p \in Producers |-> 0]
    /\ sleeps = [p \in Producers |-> 0]
    /\ sends = [p \in Producers |-> 0]
    /\ panicked = FALSE

\* mutant: a failed fetch retries at once, without the 10 second sleep
RemoteLogFilter_NoSleep(p) ==
    /\ ~panicked
    /\ pc[p] = "fetch"
    /\ attempts' = [attempts EXCEPT ![p] = @ + 1]
    /\ \E err \in {e \in BOOLEAN : e => fails[p] < MaxFails} :
          IF err
          THEN /\ fails' = [fails EXCEPT ![p] = @ + 1]
               /\ pc' = [pc EXCEPT ![p] = "fetch"]
          ELSE /\ fails' = fails
               /\ pc' = [pc EXCEPT ![p] = "lock"]
    /\ UNCHANGED <<mu, sendErr, sleeps, sends, panicked,
                   proxyVars, cfgVars, vaultVars>>

\* mutant: a failed fetch is escalated like a failed send
RemoteLogFilter_Fatal(p) ==
    /\ ~panicked
    /\ pc[p] = "fetch"
    /\ attempts' = [attempts EXCEPT ![p] = @ + 1]
    /\ \E err \in {e \in BOOLEAN : e => fails[p] < MaxFails} :
          IF err
          THEN /\ fails' = [fails EXCEPT ![p] = @ + 1]
               /\ pc' = [pc EXCEPT ![p] = "panicked"]
               /\ panicked' = TRUE
          ELSE /\ fails' = fails
               /\ pc' = [pc EXCEPT ![p] = "lock"]
               /\ panicked' = panicked
    /\ UNCHANGED <<mu, sendErr, sleeps, sends,
                   proxyVars, cfgVars, vaultVars>>

\* new_logs, _, err := spaghetti_log.RemoteLogFilter(...); on err the loop
\* prints and goes to the 10 second sleep; otherwise it builds the push
\* request (RecentBlock, SetBlockParameter, push.ToString: local to p)
RemoteLogFilter(p) ==
    /\ ~panicked
    /\ pc[p] = "fetch"
    /\ attempts' = [attempts EXCEPT ![p] = @ + 1]
    /\ \E err \in {e \in BOOLEAN : e => fails[p] < MaxFails} :
          IF err
          THEN /\ fails' = [fails EXCEPT ![p] = @ + 1]
               /\ pc' = [pc EXCEPT ![p] = "sleep10"]
          ELSE /\ fails' = fails
               /\ pc' = [pc EXCEPT ![p] = "lock"]
    /\ UNCHANGED <<mu, sendErr, sleeps, sends, panicked,
                   proxyVars, cfgVars, vaultVars>>

\* time.Sleep(10 * time.Second); continue
SleepRetry(p) ==
    /\ ~panicked
    /\ pc[p] = "sleep10"
    /\ sleeps' = [sleeps EXCEPT ![p] = @ + 1]
    /\ pc' = [pc EXCEPT ![p] = "fetch"]
    /\ UNCHANGED <<mu, sendErr, attempts, fails, sends, panicked,
                   proxyVars, cfgVars, vaultVars>>

\* mu.Lock() on the mutex of p's own categorize call
Lock(p) ==
    /\ ~panicked
    /\ pc[p] = "lock"
    /\ ~mu[p]
    /\ mu' = [mu EXCEPT ![p] = TRUE]
    /\ pc' = [pc EXCEPT ![p] = "send"]
    /\ UNCHANGED <<sendErr, attempts, fails, sleeps, sends, panicked,
                   proxyVars, cfgVars, vaultVars>>

\* manager.pusher.SendMessage(request_string) is entered
SendMessage(p) ==
    /\ ~panicked
    /\ pc[p] = "send"
    /\ sends' = [sends EXCEPT ![p] = @ + 1]
    /\ pc' = [pc EXCEPT ![p] = "sending"]
    /\ UNCHANGED <<mu, sendErr, attempts, fails, sleeps, panicked,
                   proxyVars, cfgVars, vaultVars>>

\* SendMessage returns; err is whatever the socket reports
SendMessageReturn(p) ==
    /\ ~panicked
    /\ pc[p] = "sending"
    /\ \E err \in BOOLEAN : sendErr' = [sendErr EXCEPT ![p] = err]
    /\ pc' = [pc EXCEPT ![p] = "unlock"]
    /\ UNCHANGED <<mu, attempts, fails, sleeps, sends, panicked,
                   proxyVars, cfgVars, vaultVars>>

\* mu.Unlock()
Unlock(p) ==
    /\ ~panicked
    /\ pc[p] = "unlock"
    /\ mu' = [mu EXCEPT ![p] = FALSE]
    /\ pc' = [pc EXCEPT ![p] = "check"]
    /\ UNCHANGED <<sendErr, attempts, fails, sleeps, sends, panicked,
                   proxyVars, cfgVars, vaultVars>>

\* mutant: a failed send is sent again instead of panicking
CheckSendError_Retry(p) ==
    /\ ~panicked
    /\ pc[p] = "check"
    /\ pc' = [pc EXCEPT ![p] = IF sendErr[p] THEN "lock" ELSE "sleep1"]
    /\ UNCHANGED <<mu, sendErr, attempts, fails, sleeps, sends, panicked,
                   proxyVars, cfgVars, vaultVars>>

\* if err != nil { panic(err) }: an unrecovered panic of a goroutine ends
\* the process, and with it every other producer
CheckSendError(p) ==
    /\ ~panicked
    /\ pc[p] = "check"
    /\ IF sendErr[p]
       THEN /\ pc' = [pc EXCEPT ![p] = "panicked"]
            /\ panicked' = TRUE
       ELSE /\ pc' = [pc EXCEPT ![p] = "sleep1"]
            /\ panicked' = panicked
    /\ UNCHANGED <<mu, sendErr, attempts, fails, sleeps, sends,
                   proxyVars, cfgVars, vaultVars>>

\* time.Sleep(time.Second * 1), then the next iteration; the counters
\* start again for the next envelope
SleepNext(p) ==
    /\ ~panicked
    /\ pc[p] = "sleep1"
    /\ pc' = [pc EXCEPT ![p] = "fetch"]
    /\ attempts' = [attempts EXCEPT ![p] = 0]
    /\ fails' = [fails EXCEPT ![p] = 0]
    /\ sleeps' = [sleeps EXCEPT ![p] = 0]
    /\ sends' = [sends EXCEPT ![p] = 0]
    /\ UNCHANGED <<mu, sendErr, panicked,
                   proxyVars, cfgVars, vaultVars>>

\* one step of producer p
categorizeStep(p) ==
    \/ RemoteLogFilter(p)
    \/ SleepRetry(p)
    \/ Lock(p)
    \/ SendMessage(p)
    \/ SendMessageReturn(p)
    \/ Unlock(p)
    \/ CheckSendError(p)
    \/ SleepNext(p)

CategorizeNext == \E p \in Producers : categorizeStep(p)

\* the producers at the call of categorize; the proxy is another program
CategorizeInit ==
    /\ categorize
    /\ New(EmptyService)
    /\ Loaded(EmptyService)
    /\ Created(Nil)
    /\ VaultRunController

CategorizeSpec == CategorizeInit /\ [][CategorizeNext]_vars

\* the Go scheduler runs every runnable goroutine again and again
CategorizeFairSpec ==
    CategorizeSpec /\ \A p \in Producers : WF_vars(categorizeStep(p))

\* the proxy, constructed with any of the declared service configurations
ProxyInit ==
    /\ categorize
    /\ \E config \in DeclaredServices : New(config)
    /\ Loaded(EmptyService)
    /\ Created(Nil)
    /\ VaultRunController

ProxySpec == ProxyInit /\ [][ProxyNext]_vars

\* a service configuration of any content, on which Validate is called
ConfigurationInit ==
    /\ categorize
    /\ New(EmptyService)
    /\ \E service \in Services : Loaded(service)
    /\ \E ctx \in Contexts : Created(ctx)
    /\ VaultRunController

ConfigurationSpec == ConfigurationInit /\ [][ConfigurationNext]_vars

\* the vault, from the call of RunController on
VaultInit ==
    /\ categorize
    /\ New(EmptyService)
    /\ Loaded(EmptyService)
    /\ Created(Nil)
    /\ VaultRunController

VaultSpec == VaultInit /\ [][VaultNext]_vars

(***************************************************************************)
(* Claims about the categorize producer loop.                              *)
(***************************************************************************)

\* producers inside a SendMessage call on the shared manager.pusher
InSend == {p \in Producers : pc[p] = "sending"}

\* C1: with N >= 2 producers sending through the shared manager.pusher,
\* at most one producer is between the start and the end of a SendMessage
\* call in every reachable state.
C1_SendsNeverOverlap == Cardinality(InSend) <= 1

\* a successful fetch of p whose SendMessage has not started yet
PendingSend(p) == IF pc[p] \in {"lock", "send"} THEN 1 ELSE 0

\* C2: every fetch attempt of a producer is a failed one, one that was
\* sent, or the successful one about to be sent, so that after k failures
\* and one success exactly k+1 attempts precede the first send; every
\* failed attempt is followed by exactly one 10 second sleep before the
\* next attempt; a failed attempt sends nothing and a successful one sends
\* exactly one envelope.
C2_RetryCounts ==
    \A p \in Producers :
        /\ attempts[p] = fails[p] + sends[p] + PendingSend(p)
        /\ sleeps[p] = fails[p] - (IF pc[p] = "sleep10" THEN 1 ELSE 0)
        /\ (pc[p] = "fetch" => sleeps[p] = fails[p])
        /\ (sends[p] = 1 /\ pc[p] = "sending" => attempts[p] = fails[p] + 1)

\* C2 witness: a producer failed twice, succeeded at the third attempt and
\* is sending its first envelope after two sleeps.
C2_Witness ==
    \E p \in Producers :
        /\ pc[p] = "sending"
        /\ fails[p] = 2 /\ attempts[p] = 3 /\ sleeps[p] = 2 /\ sends[p] = 1

\* a failed fetch of p leads to the retry sleep, never to a fatal state
FetchFailureRetries ==
    [][\A p \in Producers :
          (pc[p] = "fetch" /\ fails'[p] # fails[p])
              => (pc'[p] = "sleep10" /\ ~panicked')]_vars

\* a producer in the sleep goes back to fetching
SleepLeadsToFetch ==
    [][\A p \in Producers :
          (pc[p] = "sleep10" /\ pc'[p] # pc[p]) => pc'[p] = "fetch"]_vars

\* C3 as stated: a failed fetch never takes the loop to a fatal or
\* terminated state and it goes back to fetching; under fair scheduling a
\* successful fetch is eventually followed by its send on the shared handle.
C3_Original ==
    /\ FetchFailureRetries
    /\ SleepLeadsToFetch
    /\ \A p \in Producers : (pc[p] = "lock") ~> (pc[p] = "sending")

\* C3 amended: as C3, but the send follows unless the process was ended
\* meanwhile by the send-failure panic of another producer.
C3_Amended ==
    /\ FetchFailureRetries
    /\ SleepLeadsToFetch
    /\ \A p \in Producers : (pc[p] = "lock") ~> (pc[p] = "sending" \/ panicked)

\* C3 witness: a producer whose fetch failed twice in a row is sending.
C3_Witness ==
    \E p \in Producers :
        pc[p] = "sending" /\ fails[p] = 2 /\ sends[p] = 1 /\ ~panicked

\* C4: a SendMessage error makes the producer panic: the send is not
\* retried, and the producer fetches and sends nothing afterwards.
C4_SendErrorIsFatal ==
    [][\A p \in Producers :
          /\ (pc[p] = "check" /\ sendErr[p] /\ pc'[p] # pc[p])
                => (pc'[p] = "panicked" /\ panicked')
          /\ (pc[p] = "unlock" /\ sendErr[p] /\ pc'[p] # pc[p])
                => (pc'[p] = "check" /\ sends'[p] = sends[p])
          /\ pc[p] = "panicked"
                => /\ pc'[p] = "panicked"
                   /\ attempts'[p] = attempts[p]
                   /\ sends'[p] = sends[p]]_vars

\* C4 witness: a producer panicked on the error of its send.
C4_Witness ==
    \E p \in Producers : pc[p] = "panicked" /\ sendErr[p] /\ panicked

(***************************************************************************)
(* Claims about the proxy service.                                         *)
(***************************************************************************)

\* C5: Run() in serve mode on a proxy whose source was never set returns an
\* error to its caller: the process does not crash and neither the serve
\* loop of the source nor that of the proxy controller is started.
C5_RunWithoutSourceReturnsError ==
    (call.op = "Run" /\ call.mode = "serve" /\ source = Nil)
        => /\ proc = "alive"
           /\ srcPc # "serving"
           /\ ctlPc # "serving"
           /\ (runPc = "returned" => call.result # "")

\* the results with which Prepare returns an error
PrepareErrors ==
    {"missing source", "missing the required destination",
     "service type is overwritten", "source type", "destination type",
     "source port 0", "destination port 0"}

\* nothing is registered on the source or on the proxy controller
NothingRegistered ==
    /\ Controller.destination = Nil
    /\ source # Nil =>
          /\ source.config = Nil
          /\ source.requiredExtensions = {}
          /\ source.extensionConfigs = {}

\* C6: Prepare() returns an error, and the process lives on, whenever the
\* source is unset or the required destination type is still unknown; the
\* configuration completion is not started: no port is allocated, the
\* service configuration is as before and nothing is registered.
C6_PrepareNeedsSourceAndDestination ==
    (call.op = "Prepare"
        /\ (source = Nil \/ Controller.requiredDestination = UnknownType))
        => /\ call.result \in
                 {"missing source", "missing the required destination"}
           /\ (source = Nil <=> call.result = "missing source")
           /\ proc = "alive"
           /\ call.ports = <<>>
           /\ freePorts = {}
           /\ configuration = call.pre
           /\ NothingRegistered

\* C6 witness: Prepare was called with a source but without a required
\* destination type and returned the error.
C6_Witness ==
    /\ call.op = "Prepare"
    /\ source # Nil
    /\ Controller.requiredDestination = UnknownType
    /\ call.result = "missing the required destination"

\* C7: whatever the environment answers, Prepare never panics and never
\* terminates the process: every failure is returned as an error.
C7_PrepareNeverFatal ==
    call.op = "Prepare"
        => /\ proc = "alive"
           /\ call.result \in PrepareErrors \cup {"ok"}

\* the controllers of the name in a service configuration
Named(serviceConfig, name) ==
    {i \in 1..Len(serviceConfig.Controllers) :
        serviceConfig.Controllers[i].Name = name}

\* the controller of the name as GetController returns it: the first one
Get(serviceConfig, name) ==
    serviceConfig.Controllers[
        CHOOSE i \in Named(serviceConfig, name) :
            \A j \in Named(serviceConfig, name) : i <= j]

\* C8: when the service configuration declares neither a "source" nor a
\* "destination" controller, a successful Prepare() leaves exactly one
\* controller named "source" and one named "destination", each with an
\* instance of a non-zero port, and the two ports differ.
C8_SynthesizesBoth ==
    (call.op = "Prepare" /\ call.result = "ok"
        /\ Named(call.pre, SourceName) = {}
        /\ Named(call.pre, DestinationName) = {})
        => /\ Cardinality(Named(configuration, SourceName)) = 1
           /\ Cardinality(Named(configuration, DestinationName)) = 1
           /\ Len(Get(configuration, SourceName).Instances) = 1
           /\ Len(Get(configuration, DestinationName).Instances) = 1
           /\ Get(configuration, SourceName).Instances[1].Port # 0
           /\ Get(configuration, DestinationName).Instances[1].Port # 0
           /\ Get(configuration, SourceName).Instances[1].Port
                 # Get(configuration, DestinationName).Instances[1].Port

\* C8 witness: Prepare succeeded on a proxy configuration that declared one
\* unrelated controller only, and allocated two ports.
C8_Witness ==
    /\ call.op = "Prepare" /\ call.result = "ok"
    /\ call.pre.Type = ProxyType
    /\ Len(call.pre.Controllers) = 1
    /\ Named(call.pre, SourceName) = {}
    /\ Named(call.pre, DestinationName) = {}
    /\ Len(call.ports) = 2

\* C9: a Prepare() called right after a successful Prepare() succeeds too,
\* allocates no free port and leaves the service configuration as the
\* first call produced it.
C9_PrepareIdempotent ==
    (call.op = "Prepare" /\ call.again)
        => /\ call.result = "ok"
           /\ call.ports = <<>>
           /\ configuration = call.pre

\* C9 witness: the second of two successful Prepare() calls, the first of
\* which synthesized instances from allocated ports.
C9_Witness ==
    /\ call.op = "Prepare" /\ call.again /\ call.result = "ok"
    /\ freePorts # {}

\* a "source" controller is declared and its first instance has port 0
SourcePortZero(serviceConfig) ==
    /\ Named(serviceConfig, SourceName) # {}
    /\ Len(Get(serviceConfig, SourceName).Instances) > 0
    /\ Get(serviceConfig, SourceName).Instances[1].Port = 0

\* C10: when the declared "source" controller's first instance has port 0,
\* Prepare() does not succeed and does not complete the destination: no
\* free port is allocated and no destination is registered on the proxy
\* controller.
C10_SourcePortZeroFails ==
    (call.op = "Prepare" /\ SourcePortZero(call.pre))
        => /\ call.result # "ok"
           /\ call.ports = <<>>
           /\ Controller.destination = Nil

\* a service configuration a proxy can run with: of the proxy type, with a
\* controller named "source" and one named "destination" whose first
\* instances exist and have non-zero ports
ReadyToRun(serviceConfig) ==
    /\ serviceConfig.Type = ProxyType
    /\ \A name \in {SourceName, DestinationName} :
          /\ Named(serviceConfig, name) # {}
          /\ Len(Get(serviceConfig, name).Instances) >= 1
          /\ Get(serviceConfig, name).Instances[1].Port # 0

\* C11: after every successful Prepare(), whatever configuration was
\* declared, the service configuration is of the proxy type and has a
\* "source" and a "destination" controller, each with a first instance of
\* a non-zero port; a Run() that follows a successful Prepare() runs with
\* such a configuration.
C11_PreparedIsReadyToRun ==
    ((call.op = "Prepare" /\ call.result = "ok")
        \/ (call.op = "Run" /\ call.again))
        => ReadyToRun(configuration)

\* C11 witness: Prepare succeeded on a proxy configuration that declared a
\* "source" with an instance, and allocated the port of the destination.
C11_Witness ==
    /\ call.op = "Prepare" /\ call.result = "ok"
    /\ call.pre.Type = ProxyType
    /\ Named(call.pre, SourceName) # {}
    /\ Len(Get(call.pre, SourceName).Instances) = 1
    /\ Len(call.ports) = 1

\* a declared type conflicts with the expected one: the service type is
\* neither empty nor proxy, or a declared "source" or "destination" is of
\* another type than the source controller or the required destination
TypeConflict(serviceConfig, sourceType, required) ==
    \/ serviceConfig.Type \notin {"", ProxyType}
    \/ \E i \in Named(serviceConfig, SourceName) :
          serviceConfig.Controllers[i].Type # sourceType
    \/ \E i \in Named(serviceConfig, DestinationName) :
          serviceConfig.Controllers[i].Type # required

\* C12: a Prepare() that reaches the configuration completion fails on
\* every declared type that conflicts with the expected one; when it
\* succeeds the "source" entry has the type of the source controller and
\* the "destination" entry has the required destination type.
C12_TypeConflictFails ==
    (call.op = "Prepare" /\ source # Nil
        /\ Controller.requiredDestination # UnknownType)
        => /\ TypeConflict(call.pre, source.ControllerType,
                           Controller.requiredDestination)
                 => call.result # "ok"
           /\ call.result = "ok"
                 => /\ Get(configuration, SourceName).Type
                          = source.ControllerType
                    /\ Get(configuration, DestinationName).Type
                          = Controller.requiredDestination

\* C13: in serve mode Run() returns only after both the serve loop of the
\* source and the serve loop of the proxy controller have terminated: it
\* has not returned while either goroutine is still to run or is running
\* its loop.
C13_RunWaitsForBothLoops ==
    (call.op = "Run" /\ call.mode = "serve" /\ runPc = "returned")
        => /\ srcPc \in {"done", "exit"}
           /\ ctlPc = "exit"
           /\ wg = 0

\* C13 witness: Run returned in serve mode after both loops ended without
\* an error.
C13_Witness ==
    /\ call.op = "Run" /\ call.mode = "serve" /\ runPc = "returned"
    /\ srcPc = "exit" /\ ctlPc = "exit" /\ ~srcErr /\ proc = "alive"

\* C14: once the serve loop of the source has returned an error, Run()
\* does not return normally to its caller: the process is terminated
\* before Run can return.
C14_SourceErrorNeverReturns ==
    (call.op = "Run" /\ call.mode = "serve" /\ srcErr)
        => ~(runPc = "returned" /\ proc = "alive")

C16_ReadOnlyAfterPrepare ==
    (call.op = "Run" /\ call.again) => configuration = call.pre

\* the registrations of Prepare are made on the source and on the proxy
\* controller
Registered ==
    /\ source.config = Get(configuration, SourceName)
    /\ Controller.destination = Get(configuration, DestinationName)
    /\ extension.Url \in source.requiredExtensions
    /\ extension \in source.extensionConfigs

\* C17: after a successful Prepare() the source has received the "source"
\* controller configuration, the proxy controller has received the
\* "destination" one, and the source requires the extension of the proxy
\* and holds its configuration; a Prepare() that returns an error leaves
\* the source and the proxy controller as they were.
C17_Registrations ==
    /\ []((call.op = "Prepare" /\ call.result = "ok") => Registered)
    /\ [][(call'.op = "Prepare" /\ call'.result \in PrepareErrors)
            => (source' = source /\ Controller' = Controller)]_vars

\* C17 witness: Prepare succeeded and the source holds the configuration
\* of a declared "source" controller.
C17_Witness ==
    /\ call.op = "Prepare" /\ call.result = "ok"
    /\ Named(call.pre, SourceName) # {}
    /\ source.config = Get(call.pre, SourceName)
    /\ extension \in source.extensionConfigs

\* C18 as stated: SetDefaultSource(t) returns an error exactly when t is
\* neither the replier nor the pusher type.
C18_Original ==
    call.op = "SetDefaultSource"
        => (call.result # "ok" <=> call.arg \notin {ReplierType, PusherType})

\* C18 amended: SetDefaultSource(t) returns an error whenever t is neither
\* the replier nor the pusher type, and otherwise only when the constructor
\* of the source controller fails; on error the source of the proxy is
\* left as it was; on success the proxy has a source of type t, and a
\* Prepare() that follows does not fail with the missing-source error.
C18_Amended ==
    /\ [](call.op = "SetDefaultSource"
            => /\ call.arg \notin {ReplierType, PusherType}
                     => call.result = "type not supported"
               /\ call.arg \in {ReplierType, PusherType}
                     => call.result \in {"ok", "failed to create a source"}
               /\ call.result = "ok"
                     => (source # Nil /\ source.ControllerType = call.arg))
    /\ [][(call'.op = "SetDefaultSource" /\ call'.result # "ok")
            => source' = source]_vars
    /\ [][(call.op = "SetDefaultSource" /\ call.result = "ok"
                /\ call'.op = "Prepare")
            => call'.result # "missing source"]_vars

\* C18 witness: SetDefaultSource(PusherType) returned nil on a proxy that
\* had no source, and a source of that type is attached.
C18_Witness ==
    /\ call.op = "SetDefaultSource" /\ call.arg = PusherType
    /\ call.result = "ok"
    /\ source # Nil /\ source.ControllerType = PusherType
    /\ source.config = Nil

\* the controller of the name is declared with the expected type and a
\* first instance of a non-zero port
DeclaredWithPort(serviceConfig, name, type) ==
    /\ Named(serviceConfig, name) # {}
    /\ Get(serviceConfig, name).Type = type
    /\ Len(Get(serviceConfig, name).Instances) > 0
    /\ Get(serviceConfig, name).Instances[1].Port # 0

\* the "source" and "destination" controllers declared in that way
Kept(serviceConfig) ==
    {name \in {SourceName} :
        DeclaredWithPort(serviceConfig, name, source.ControllerType)}
    \cup
    {name \in {DestinationName} :
        DeclaredWithPort(serviceConfig, name, Controller.requiredDestination)}

\* C25: a successful Prepare() keeps every "source" or "destination"
\* controller that is declared with the expected type and a first instance
\* of a non-zero port, also when the service type is empty: it allocates a
\* free port only for the other ones and the first instance of the kept
\* controller has the declared port.
C25_DeclaredInstancesKept ==
    (call.op = "Prepare" /\ call.result = "ok")
        => /\ Len(call.ports) <= 2 - Cardinality(Kept(call.pre))
           /\ \A name \in Kept(call.pre) :
                 /\ Named(configuration, name) # {}
                 /\ Get(configuration, name).Instances
                       = Get(call.pre, name).Instances

\* C26: whenever Prepare() returns an error, on any of its error paths,
\* the service configuration of the proxy is what it was before the call.
C26_ErrorLeavesConfiguration ==
    (call.op = "Prepare" /\ call.result \in PrepareErrors)
        => configuration = call.pre

\* C26 witness: Prepare returned the error of a declared destination of
\* port 0 after it had completed the source in its copy with a free port.
C26_Witness ==
    /\ call.op = "Prepare" /\ call.result = "destination port 0"
    /\ Len(call.ports) = 1
    /\ configuration = call.pre

\* the service has no "source" controller with an instance
NoSourceInstance(serviceConfig) ==
    \/ Named(serviceConfig, SourceName) = {}
    \/ Len(Get(serviceConfig, SourceName).Instances) = 0

\* C27: ServiceToProxy fails when the service is not of the proxy type,
\* when it has no "source" controller or when that controller has no
\* instance, and otherwise returns a descriptor with the port of the first
\* instance of the source; on the service configuration that a successful
\* Prepare() has just left it succeeds and the port is not zero.
C27_ServiceToProxy ==
    call.op = "ServiceToProxy"
        => /\ configuration = call.pre
           /\ call.result # "ok"
                 <=> (call.pre.Type # ProxyType \/ NoSourceInstance(call.pre))
           /\ call.result # "ok" => call.value = Nil
           /\ call.result = "ok"
                 => /\ call.value # Nil
                    /\ call.value.Port
                          = Get(call.pre, SourceName).Instances[1].Port
           /\ call.again => (call.result = "ok" /\ call.value.Port # 0)

\* C27 witness: ServiceToProxy converted the service configuration that a
\* successful Prepare() had just completed with a free port for the
\* source.
C27_Witness ==
    /\ call.op = "ServiceToProxy" /\ call.again
    /\ call.result = "ok"
    /\ call.value.Port \in freePorts
    /\ Len(Get(configuration, SourceName).Instances) = 1
    /\ Get(configuration, SourceName).Instances[1].Instance
          = <<SourceName, "1">>

(***************************************************************************)
(* Claims about the service configuration.                                 *)
(***************************************************************************)

\* the controllers of s whose type is outside the recognized set
Offending ==
    {i \in 1..Len(s.Controllers) : s.Controllers[i].Type \notin ControllerTypes}

\* C19: Validate returns an error if and only if the service type is
\* outside the recognized set or some listed controller has a type outside
\* the recognized set; and a call of Validate, with or without an error,
\* leaves the service configuration as it was.
C19_ValidateIffUnrecognized ==
    /\ [](ret.op = "Validate"
            => (ret.err # NoError
                  <=> (s.Type \notin ServiceTypes \/ Offending # {})))
    /\ [][ret'.op = "Validate" => s' = s]_vars

\* C19 witness: Validate returned an error on a service of a recognized
\* type whose second controller only is of an unrecognized type.
C19_Witness ==
    /\ ret.op = "Validate" /\ ret.err # NoError
    /\ s.Type \in ServiceTypes
    /\ Offending = {2}

\* C20: on a service of a recognized type that lists a controller of an
\* unrecognized type, the error of Validate names the offending
\* controller: it carries the name of the first such controller.
C20_ErrorNamesController ==
    (ret.op = "Validate" /\ s.Type \in ServiceTypes /\ Offending # {})
        => \E k \in 1..Len(ret.err) :
              ret.err[k] = s.Controllers[
                  CHOOSE i \in Offending : \A j \in Offending : i <= j].Name

\* the controllers of s that have the name
NamedInS(name) == {i \in 1..Len(s.Controllers) : s.Controllers[i].Name = name}

\* C21: GetController(name) returns, without an error, the first
\* controller in declaration order whose name is name; when no controller
\* has that name it returns no controller and an error that carries both
\* the requested name and the name of the service.
C21_GetControllerFirstMatch ==
    ret.op = "GetController"
        => IF NamedInS(ret.arg) = {}
           THEN /\ ret.value = Nil
                /\ ret.err # NoError
                /\ \E k \in 1..Len(ret.err) : ret.err[k] = ret.arg
                /\ \E k \in 1..Len(ret.err) : ret.err[k] = s.Name
           ELSE /\ ret.err = NoError
                /\ \E i \in NamedInS(ret.arg) :
                      /\ \A j \in NamedInS(ret.arg) : i <= j
                      /\ ret.value = s.Controllers[i]

\* C21 witness: GetController returned the first of two controllers that
\* have the requested name and differ in their type.
C21_Witness ==
    /\ ret.op = "GetController" /\ ret.err = NoError
    /\ NamedInS(ret.arg) = {1, 2}
    /\ s.Controllers[1] # s.Controllers[2]
    /\ ret.value = s.Controllers[1]

\* C24: Host() is a function of the type of the context only: the
\* loopback host for the development type, the all-interfaces host for the
\* default type, whatever the paths are and whatever was called before;
\* and a call of Host leaves the context as it was.
C24_HostByType ==
    /\ [](host.of # Nil
            => /\ host.of.Type = DevContext => host.value = "localhost"
               /\ host.of.Type = DefaultContext => host.value = "0.0.0.0")
    /\ [][host' # host => (context' = context /\ host'.of = context)]_vars

\* C24 witness: Host returned the loopback host on a development context
\* whose source path is not the default one.
C24_Witness ==
    /\ host.of # Nil
    /\ host.of.Type = DevContext /\ host.value = "localhost"
    /\ host.of.Src = "/usr/src"
    /\ context = host.of

(***************************************************************************)
(* Claims about the vault.                                                 *)
(***************************************************************************)

\* C22: in the loop of the vault receives and replies alternate: no reply
\* is sent without a request before it, and when the loop is about to
\* receive, every request received so far got exactly one reply, a fail
\* reply or an OK reply.
C22_ReceiveReplyAlternate ==
    /\ replied <= received
    /\ received <= replied + 1
    /\ vaultPc = "recv" => received = replied
    /\ vaultPc \in {"fail", "ok"} => received = replied + 1
    /\ replied > 0 => (reply # Nil /\ reply.Status \in {"fail", "OK"})

\* C22 witness: two requests were received and replied to, the last one
\* with a fail reply, and the loop is about to receive the third.
C22_Witness ==
    /\ vaultPc = "recv" /\ received = 2 /\ replied = 2
    /\ reply # Nil /\ reply.Status = "fail"

\* C23: a command other than GetString, a failed receive and a failed
\* send of a reply each end the process with a panic, and the loop
\* receives and replies nothing after the panic.
C23_ProtocolErrorsAreFatal ==
    /\ [](recvErr => vaultPc \in {"command", "panicked"})
    /\ [](sendFailed => vaultPc = "panicked")
    /\ [][(vaultPc = "command" /\ vaultPc' # vaultPc
              /\ (recvErr \/ request.Command # "GetString"))
            => vaultPc' = "panicked"]_vars
    /\ [][vaultPc = "panicked"
            => (vaultPc' = "panicked" /\ received' = received
                /\ replied' = replied)]_vars

\* C23 witness: the vault panicked on a received command that is not
\* GetString, after it had served a request.
C23_Witness ==
    /\ vaultPc = "panicked" /\ ~recvErr /\ ~sendFailed
    /\ request.Command = "SetString"
    /\ replied = 1 /\ received = 2

=============================================================================
